---- MODULE Spec2Model ----
(***************************************************************************)
(* Model of tools/latency_metrics.py (wenet): the latency analysis of a    *)
(* streaming CTC model against a Kaldi forced alignment.                    *)
(*                                                                          *)
(* main() is one long script.  Its three loops are modelled one iteration   *)
(* per step:                                                                *)
(*   "forward"  lines 85-124   one wav of wav.scp -> timestamps[key]        *)
(*   "analyze"  lines 131-164  one alignment line -> a counter or a record  *)
(*   "report"   lines 176-236  one metric: sort datas, select six records   *)
(* An uncaught Python exception ends the run: pc = "raised".                *)
(*                                                                          *)
(* The acoustic model is a black box: the per-frame argmax token ids are an *)
(* input drawn from RawHyps.  The per-frame scores and the wav path, which  *)
(* only the plots read, are left out of timestamps[key].  Text fields       *)
(* (text_fa, text_st) are kept as sequences of symbols, one entry per       *)
(* concatenated symbol.  AvgTokenDelay, a float quotient in the code, is    *)
(* kept as the exact fraction [num, den].  Alignment lines are well formed: *)
(* a key followed by at least one token.                                    *)
(***************************************************************************)
EXTENDS Integers, Sequences, FiniteSets, TLC

\* ---------------------------------------------------------------- bounds
MaxHypFrames == 3   \* most frames of a hypothesis under Spec
MaxAlignFrames == 2 \* most tokens of an alignment line under Spec
MaxAligns == 2      \* most alignment lines read under Spec
MaxSelAligns == 10  \* most alignment lines read under SpecSel

\* ------------------------------------------------------- run configuration
\* args.dict read by read_symbol_table: symbol -> id; id 0 is <blank>.
symbol_table == [s \in {"<blank>", "a", "b"} |->
                    IF s = "<blank>" THEN 0 ELSE IF s = "a" THEN 1 ELSE 2]

\* char_dict = {v: k for k, v in symbol_table.items()}
char_dict == [i \in {symbol_table[s] : s \in DOMAIN symbol_table} |->
                 CHOOSE s \in DOMAIN symbol_table : symbol_table[s] = i]

\* model.encoder.embed.subsampling_rate of the loaded model (1: no
\* subsampling, 4: conv2d).
Subsamplings == {1, 4}

\* keys of wav.scp and keys an alignment line can carry
WavKeys == {"utt1"}
AlignKeys == {"utt1", "utt2"}

RECURSIVE SeqsUpTo(_, _)
SeqsUpTo(S, n) ==
    IF n = 0 THEN {<<>>}
    ELSE LET shorter == SeqsUpTo(S, n - 1)
         IN  shorter \cup {Append(s, x) : s \in shorter, x \in S}

\* per-frame argmax token ids of one utterance (topk_index, at least 1 frame)
RawHyps == SeqsUpTo(DOMAIN char_dict, MaxHypFrames) \ {<<>>}

\* the tokens of one alignment line (one symbol per native frame)
AlignSymbols == {"<blank>", "a"}
AlignTokens == SeqsUpTo(AlignSymbols, MaxAlignFrames) \ {<<>>}

\* the inputs of SpecSel: one utterance, two alignments of it
SelSubsamplings == {1}
SelRawHyps == {<<0, 1, 2>>}
SelAlignKeys == {"utt1"}
SelAlignTokens == {<<"a", "<blank>", "b">>, <<"<blank>", "a", "b">>}

\* ------------------------------------------------------------------ state
VARIABLES
    pc,           \* "forward" | "analyze" | "report" | "done" | "raised"
    subsampling,  \* line 77
    timestamps,   \* line 84: key -> per-frame hypothesis (duplicates blanked)
    line_no,      \* number of alignment lines the loop of line 131 has taken
    key,          \* lines 88 and 132: the key of the current wav / alignment line
    align,        \* line 132: the tokens of the current alignment line
    fa, st,       \* line 136: force_alignment, streaming_timestamps
    text_fa, text_st,                   \* line 137
    not_found, len_unequal, ignored,    \* line 129
    datas,        \* line 130, sorted in place by line 179
    created,      \* history: the records in the order line 160 appended them
    num_datas,    \* line 170 (-1 before it is set)
    parts_index,  \* line 174 (<<>> before it is set)
    name_pos,     \* position of the loop of line 176 in names (1..3)
    report        \* the (metric, percentile) lines logged by line 184

vars == <<pc, subsampling, timestamps, line_no, key, align, fa, st, text_fa,
          text_st, not_found, len_unequal, ignored, datas, created, num_datas,
          parts_index, name_pos, report>>

\* --------------------------------------------------------------- helpers
Abs(x) == IF x < 0 THEN -x ELSE x

RECURSIVE Sum(_)
Sum(s) == IF s = <<>> THEN 0 ELSE Head(s) + Sum(Tail(s))

Min(a, b) == IF a < b THEN a ELSE b

\* wenet.utils.common.replace_duplicates_with_blank: a token that repeats the
\* previous frame's non-blank token becomes blank; the length is kept.
replace_duplicates_with_blank(hyp) ==
    [i \in 1..Len(hyp) |->
        IF i > 1 /\ hyp[i] = hyp[i - 1] /\ hyp[i] # 0 THEN 0 ELSE hyp[i]]

\* lines 138-142: fa, from 0-based position i on
RECURSIVE ForceAlignment(_, _)
ForceAlignment(tokens, i) ==
    IF i >= Len(tokens) THEN <<>>
    ELSE (IF tokens[i + 1] # "<blank>" THEN <<i * 10>> ELSE <<>>)
         \o ForceAlignment(tokens, i + 1)

\* lines 138-140: text_fa
ForceAlignmentText(tokens) == SelectSeq(tokens, LAMBDA t : t # "<blank>")

\* lines 149-153: st, from 0-based position i on
StreamingTimestamps_NoSubsample(hyp, sub, i) ==
    ForceAlignment([j \in 1..Len(hyp) |-> IF hyp[j] # 0 THEN "x" ELSE "<blank>"], i)

RECURSIVE StreamingTimestamps(_, _, _)
StreamingTimestamps(hyp, sub, i) ==
    IF i >= Len(hyp) THEN <<>>
    ELSE (IF hyp[i + 1] # 0 THEN <<i * sub * 10>> ELSE <<>>)
         \o StreamingTimestamps(hyp, sub, i + 1)

\* lines 149-151: text_st
StreamingText_KeepBlank(hyp) == [j \in 1..Len(hyp) |-> char_dict[hyp[j]]]

StreamingText(hyp) ==
    LET kept == SelectSeq(hyp, LAMBDA t : t # 0)
    IN  [j \in 1..Len(kept) |-> char_dict[kept[j]]]

\* line 146
FrameCountMismatch_Strict(frames_st, frames_fa) == Abs(frames_st - frames_fa) > 7

FrameCountMismatch(frames_st, frames_fa) == Abs(frames_st - frames_fa) >= 7

\* line 154
LengthUnequal_Off(f, s) == FALSE

LengthUnequal_Shorter(f, s) == Len(f) < Len(s)

LengthUnequal(f, s) == Len(f) # Len(s)

\* line 161: [a - b for a, b in zip(st, fa)]; zip stops at the shorter list
ZipDiff(s, f) == [i \in 1..Min(Len(s), Len(f)) |-> s[i] - f[i]]

\* lines 160-164: the record appended to datas
MakeRecord(k, tokens, hyp, f, s, tf, ts) ==
    [key |-> k, text_fa |-> tf, text_st |-> ts,
     diffs |-> ZipDiff(s, f),
     first |-> s[1] - f[1],
     last |-> s[Len(s)] - f[Len(f)],
     avg |-> [num |-> Sum(s) - Sum(f), den |-> Len(s)],
     hyp |-> hyp, ref |-> tokens]

\* lines 171-172: names and names_index
names == <<"FirstTokenDelay", "LastTokenDelay", "AvgTokenDelay">>
names_index == <<4, 5, 6>>

\* line 173
parts == <<"max", "P90", "P75", "P50", "P25", "min">>

\* lines 174-175; int() of a non-negative float is its floor
PartsIndex_Ceil(n) ==
    <<n - 1, (n * 90 + 99) \div 100, (n * 75) \div 100,
      (n * 50) \div 100, (n * 25) \div 100, 0>>

PartsIndex_Guarded(n) ==
    IF n = 0 THEN <<>>
    ELSE <<n - 1, (n * 90) \div 100, (n * 75) \div 100,
           (n * 50) \div 100, (n * 25) \div 100, 0>>

PartsIndex(n) ==
    <<n - 1, (n * 90) \div 100, (n * 75) \div 100,
      (n * 50) \div 100, (n * 25) \div 100, 0>>

\* x[f()] < y[f()] for the sort key of line 179
KeyLess(x, y, idx) ==
    IF idx = 4 THEN x.first < y.first
    ELSE IF idx = 5 THEN x.last < y.last
    ELSE x.avg.num * y.avg.den < y.avg.num * x.avg.den

\* data[f()] of line 185
KeyOf(x, idx) == IF idx = 4 THEN x.first ELSE IF idx = 5 THEN x.last ELSE x.avg

\* list.sort is stable: a record goes after the records whose key is not larger
RECURSIVE Insert_Unstable(_, _, _)
Insert_Unstable(sorted, r, idx) ==
    IF sorted = <<>> THEN <<r>>
    ELSE IF ~KeyLess(Head(sorted), r, idx) THEN <<r>> \o sorted
    ELSE <<Head(sorted)>> \o Insert_Unstable(Tail(sorted), r, idx)

RECURSIVE Insert(_, _, _)
Insert(sorted, r, idx) ==
    IF sorted = <<>> THEN <<r>>
    ELSE IF KeyLess(r, Head(sorted), idx) THEN <<r>> \o sorted
    ELSE <<Head(sorted)>> \o Insert(Tail(sorted), r, idx)

\* line 179: datas.sort(key=lambda x: x[f()])
RECURSIVE SortInto(_, _, _)
SortInto(acc, rest, idx) ==
    IF rest = <<>> THEN acc
    ELSE SortInto(Insert(acc, Head(rest), idx), Tail(rest), idx)

SortBy(recs, idx) == SortInto(<<>>, recs, idx)

\* datas[i] raises IndexError unless -len <= i < len
IndexRaises(i, n) == ~(-n <= i /\ i < n)

\* datas[i], with Python's negative indices
ListGet(list, i) == IF i < 0 THEN list[Len(list) + i + 1] ELSE list[i + 1]

\* ------------------------------------------------------------------- Init
InitWith(subs) ==
    /\ pc = "forward"
    /\ subsampling \in subs
    /\ timestamps = <<>>
    /\ line_no = 0
    /\ key = "" /\ align = <<>>
    /\ fa = <<>> /\ st = <<>> /\ text_fa = <<>> /\ text_st = <<>>
    /\ not_found = 0 /\ len_unequal = 0 /\ ignored = 0
    /\ datas = <<>> /\ created = <<>>
    /\ num_datas = -1 /\ parts_index = <<>>
    /\ name_pos = 1
    /\ report = <<>>

Init == InitWith(Subsamplings)
InitSel == InitWith(SelSubsamplings)

\* ---------------------------------------------------------------- actions
\* lines 85-124, one wav: greedy CTC search, duplicates replaced by blank;
\* line 124 assigns timestamps[key], so a key that wav.scp repeats is overwritten
Forward(k, raw) ==
    /\ pc = "forward"
    /\ key' = k    \* line 88 binds the same local that line 132 binds
    /\ timestamps' = (k :> replace_duplicates_with_blank(raw)) @@ timestamps
    /\ UNCHANGED <<pc, subsampling, line_no, align, fa, st, text_fa,
                   text_st, not_found, len_unequal, ignored, datas, created,
                   num_datas, parts_index, name_pos, report>>

\* lines 127-130: wav.scp is exhausted, the alignment file is read
StartAnalyze ==
    /\ pc = "forward"
    /\ pc' = "analyze"
    /\ UNCHANGED <<subsampling, timestamps, line_no, key, align, fa, st,
                   text_fa, text_st, not_found, len_unequal, ignored, datas,
                   created, num_datas, parts_index, name_pos, report>>

\* lines 131-164, one alignment line "k tokens..."
Analyze(k, tokens) ==
    /\ pc = "analyze"
    /\ line_no' = line_no + 1
    /\ key' = k
    /\ align' = tokens
    /\ IF k \notin DOMAIN timestamps
       THEN \* lines 133-135
            /\ not_found' = not_found + 1
            /\ UNCHANGED <<pc, fa, st, text_fa, text_st, len_unequal, ignored,
                           datas, created>>
       ELSE LET hyp == timestamps[k]
                f == ForceAlignment(tokens, 0)
                tf == ForceAlignmentText(tokens)
                frames_fa == Len(tokens)
                frames_st == Len(hyp) * subsampling
                s == StreamingTimestamps(hyp, subsampling, 0)
                ts == StreamingText(hyp)
            IN  /\ fa' = f
                /\ text_fa' = tf
                /\ UNCHANGED not_found
                /\ IF FrameCountMismatch(frames_st, frames_fa)
                   THEN \* lines 146-148
                        /\ ignored' = ignored + 1
                        /\ st' = <<>>
                        /\ text_st' = <<>>
                        /\ UNCHANGED <<pc, len_unequal, datas, created>>
                   ELSE /\ st' = s
                        /\ text_st' = ts
                        /\ UNCHANGED ignored
                        /\ IF LengthUnequal(f, s)
                           THEN \* lines 154-156
                                /\ len_unequal' = len_unequal + 1
                                /\ UNCHANGED <<pc, datas, created>>
                           ELSE IF Len(s) = 0 \/ Len(f) = 0
                           THEN \* line 162: st[0] or fa[0] raises IndexError
                                /\ pc' = "raised"
                                /\ UNCHANGED <<len_unequal, datas, created>>
                           ELSE \* lines 160-164
                                /\ datas' = Append(datas,
                                       MakeRecord(k, tokens, hyp, f, s, tf, ts))
                                /\ created' = Append(created,
                                       MakeRecord(k, tokens, hyp, f, s, tf, ts))
                                /\ UNCHANGED <<pc, len_unequal>>
    /\ UNCHANGED <<subsampling, timestamps, num_datas, parts_index, name_pos,
                   report>>

\* lines 166-175: the alignment file is exhausted
StartReport ==
    /\ pc = "analyze"
    /\ pc' = "report"
    /\ num_datas' = Len(datas)
    /\ parts_index' = PartsIndex(Len(datas))
    /\ UNCHANGED <<subsampling, timestamps, line_no, key, align, fa, st,
                   text_fa, text_st, not_found, len_unequal, ignored, datas,
                   created, name_pos, report>>

\* lines 176-236, one metric: sort in place, then log the record at each index
\* of zip(parts, parts_index) until one raises IndexError
ReportMetric ==
    /\ pc = "report"
    /\ LET idx == names_index[name_pos]
           sorted == SortBy(datas, idx)
           m == Min(Len(parts), Len(parts_index))
           bad == {j \in 1..m : IndexRaises(parts_index[j], Len(sorted))}
           stop == IF bad = {} THEN m + 1
                   ELSE CHOOSE j \in bad : \A j2 \in bad : j <= j2
           logged == [j \in 1..(stop - 1) |->
                        [name |-> names[name_pos], part |-> parts[j],
                         value |-> KeyOf(ListGet(sorted, parts_index[j]), idx),
                         data |-> ListGet(sorted, parts_index[j])]]
       IN  /\ datas' = sorted
           /\ report' = report \o logged
           /\ IF bad # {}
              THEN pc' = "raised" /\ UNCHANGED name_pos
              ELSE IF name_pos = Len(names)
              THEN pc' = "done" /\ UNCHANGED name_pos
              ELSE name_pos' = name_pos + 1 /\ UNCHANGED pc
    /\ UNCHANGED <<subsampling, timestamps, line_no, key, align, fa, st,
                   text_fa, text_st, not_found, len_unequal, ignored, created,
                   num_datas, parts_index>>

\* ---------------------------------------------------------- specifications
Next ==
    \/ \E k \in WavKeys, raw \in RawHyps : Forward(k, raw)
    \/ StartAnalyze
    \/ \E k \in AlignKeys, tokens \in AlignTokens :
            line_no < MaxAligns /\ Analyze(k, tokens)
    \/ StartReport
    \/ ReportMetric

Spec == Init /\ [][Next]_vars

\* the same program on one utterance and long alignment files
NextSel ==
    \/ \E k \in WavKeys, raw \in SelRawHyps : Forward(k, raw)
    \/ StartAnalyze
    \/ \E k \in SelAlignKeys, tokens \in SelAlignTokens :
            line_no < MaxSelAligns /\ Analyze(k, tokens)
    \/ StartReport
    \/ ReportMetric

SpecSel == InitSel /\ [][NextSel]_vars

\* ================================================================ claims
\* 1-based positions of the frames / tokens that carry a symbol
HypSymbolFrames(hyp) == {i \in 1..Len(hyp) : hyp[i] # 0}
RefSymbolFrames(tokens) == {i \in 1..Len(tokens) : tokens[i] # "<blank>"}

\* the n-th smallest member of a finite set of numbers
Nth(S, n) == CHOOSE x \in S : Cardinality({y \in S : y < x}) = n - 1

\* a step of the analysis loop: one more alignment line has been taken
AnalyzeStep == pc = "analyze" /\ line_no' = line_no + 1

\* the two frame counts line 146 compares, for the line just taken
FrameGap(k, tokens) == Abs(Len(timestamps[k]) * subsampling - Len(tokens))

\* -------------------------------------------------------------------- C1
\* C1 (as amended): a found utterance is skipped as ignored exactly when
\* abs(frames_st - frames_fa) >= 7, where frames_fa is the number of
\* alignment tokens (blanks included) and frames_st is the number of
\* hypothesis FRAMES (blanks included) times subsampling; with a gap of 6 or
\* less it goes on to the symbol-count check.
C1_FrameFilter ==
    [][(AnalyzeStep /\ key' \in DOMAIN timestamps) =>
        LET d == FrameGap(key', align')
        IN  /\ (d >= 7) <=> (ignored' = ignored + 1)
            /\ (d >= 7) => /\ pc' = "analyze"
                           /\ UNCHANGED <<not_found, len_unequal, datas>>
            /\ (d <= 6) =>
                 /\ ignored' = ignored
                 /\ Len(st') = Cardinality(HypSymbolFrames(timestamps[key']))
                 /\ \/ len_unequal' = len_unequal + 1
                    \/ Len(datas') = Len(datas) + 1
                    \/ pc' = "raised"]_vars

\* a found line whose frame gap is exactly 7 was counted as ignored
C1_Witness ==
    /\ line_no = 1
    /\ key \in DOMAIN timestamps
    /\ FrameGap(key, align) = 7
    /\ ignored = 1

\* C1 as stated: frames_hyp is the number of non-blank hypothesis symbols
\* times subsampling.
C1_Original ==
    [][(AnalyzeStep /\ key' \in DOMAIN timestamps) =>
        LET collapsed == Cardinality(HypSymbolFrames(timestamps[key']))
            d == Abs(collapsed * subsampling - Len(align'))
        IN  (d >= 7) <=> (ignored' = ignored + 1)]_vars

\* -------------------------------------------------------------------- C2
\* C2: every record pairs the i-th hypothesis symbol with the i-th reference
\* symbol: diffs[i] = hyp_ts[i] - ref_ts[i], first = diffs[0], last =
\* diffs[-1], avg * len(diffs) = sum(diffs), with hyp_ts[i] = frame of the
\* i-th non-blank hypothesis token * subsampling * 10 and ref_ts[i] =
\* position of the i-th non-blank reference token * 10.
C2_RecordFields ==
    \A n \in 1..Len(datas) :
        LET r == datas[n]
            hf == HypSymbolFrames(r.hyp)
            rf == RefSymbolFrames(r.ref)
            hyp_ts(i) == (Nth(hf, i) - 1) * subsampling * 10
            ref_ts(i) == (Nth(rf, i) - 1) * 10
        IN  /\ Len(r.diffs) >= 1
            /\ Len(r.diffs) = Cardinality(hf)
            /\ Len(r.diffs) = Cardinality(rf)
            /\ \A i \in 1..Len(r.diffs) : r.diffs[i] = hyp_ts(i) - ref_ts(i)
            /\ r.first = r.diffs[1]
            /\ r.last = r.diffs[Len(r.diffs)]
            /\ r.avg.den > 0
            /\ r.avg.num * Len(r.diffs) = Sum(r.diffs) * r.avg.den

\* a record of two symbols whose texts differ and whose delays differ
C2_Witness ==
    \E n \in 1..Len(datas) :
        /\ Len(datas[n].diffs) = 2
        /\ datas[n].text_st # datas[n].text_fa
        /\ datas[n].first # datas[n].last
        /\ subsampling > 1

\* -------------------------------------------------------------------- C3
\* C3: a found line that passes the frame filter and has no symbol in the
\* hypothesis and/or the reference never ends the run with an exception: the
\* analysis loop goes on.
C3_NeverRaises ==
    (/\ num_datas = -1
     /\ line_no >= 1
     /\ key \in DOMAIN timestamps
     /\ FrameGap(key, align) < 7
     /\ \/ HypSymbolFrames(timestamps[key]) = {}
        \/ RefSymbolFrames(align) = {})
    => pc = "analyze"

\* -------------------------------------------------------------------- C4
SameKey(x, y, idx) == ~KeyLess(x, y, idx) /\ ~KeyLess(y, x, idx)

\* new is old sorted ascending by the metric, equal keys in old's order
IsStableSortOf(new, old, idx) ==
    /\ Len(new) = Len(old)
    /\ \A i \in 1..Len(new) : \A j \in (i + 1)..Len(new) :
           ~KeyLess(new[j], new[i], idx)
    /\ \A n \in 1..Len(old) :
           SelectSeq(new, LAMBDA x : SameKey(x, old[n], idx))
             = SelectSeq(old, LAMBDA x : SameKey(x, old[n], idx))

\* C4 (as amended): for each metric the record selected at a percentile
\* label is the one at the label's index in a stable ascending sort of the
\* list AS THE PREVIOUS METRIC'S SORT LEFT IT (creation order only for the
\* first metric): datas is sorted in place.
C4_StableOnCurrentOrder ==
    [][(pc = "report" /\ pc' # "raised") =>
        LET idx == names_index[name_pos]
        IN  /\ IsStableSortOf(datas', datas, idx)
            /\ name_pos = 1 => datas = created
            /\ Len(report') = Len(report) + 6
            /\ \A j \in 1..6 :
                 LET e == report'[Len(report) + j]
                 IN  /\ e.name = names[name_pos]
                     /\ e.part = parts[j]
                     /\ e.data = datas'[parts_index[j] + 1]]_vars

\* a later metric was sorted with two different records of equal key, and the
\* record it reports as min is not the one creation order would give
C4_Witness ==
    /\ pc = "report"
    /\ name_pos = 3
    /\ Len(report) = 12
    /\ \E i \in 1..(Len(datas) - 1) :
           datas[i] # datas[i + 1] /\ datas[i].last = datas[i + 1].last
    /\ report[12].data # SortBy(created, 5)[1]

\* C4 as stated: every reported record is the one at the label's index in
\* the stable sort of the records in creation order.
C4_Original ==
    \A e \in 1..Len(report) :
        LET m == ((e - 1) \div 6) + 1
            j == ((e - 1) % 6) + 1
        IN  report[e].data = SortBy(created, names_index[m])[parts_index[j] + 1]

\* -------------------------------------------------------------------- C5
\* C5 (as amended): the collapsed hypothesis (text_st with its timestamps
\* st) holds no blank, and two consecutive entries share a symbol only when
\* they do not come from adjacent frames, i.e. a blank frame lies between.
C5_CollapseOutput ==
    /\ Len(text_st) = Len(st)
    /\ \A i \in 1..Len(text_st) : text_st[i] # "<blank>"
    /\ \A i \in 1..(Len(text_st) - 1) :
           st[i + 1] - st[i] = subsampling * 10 => text_st[i] # text_st[i + 1]

\* the same symbol on both sides of a blank frame: both are kept
C5_Witness ==
    /\ Len(text_st) = 2
    /\ text_st[1] = text_st[2]
    /\ st[2] - st[1] = 2 * subsampling * 10

\* C5 as stated: no two consecutive entries share a token, none is blank.
C5_Original ==
    /\ \A i \in 1..Len(text_st) : text_st[i] # "<blank>"
    /\ \A i \in 1..(Len(text_st) - 1) : text_st[i] # text_st[i + 1]

\* -------------------------------------------------------------------- C6
\* C6: a found line that passes the frame filter and whose hypothesis and
\* reference hold different numbers of symbols adds exactly 1 to len_unequal
\* and leaves not_found, ignored and datas alone.
C6_LengthMismatch ==
    [][(/\ AnalyzeStep
        /\ key' \in DOMAIN timestamps
        /\ FrameGap(key', align') < 7
        /\ Cardinality(HypSymbolFrames(timestamps[key']))
             # Cardinality(RefSymbolFrames(align')))
       => /\ len_unequal' = len_unequal + 1
          /\ pc' = "analyze"
          /\ UNCHANGED <<not_found, ignored, datas>>]_vars

\* a single line with more reference symbols than hypothesis symbols was
\* counted as length-unequal
C6_Witness ==
    /\ line_no = 1
    /\ key \in DOMAIN timestamps
    /\ FrameGap(key, align) < 7
    /\ Cardinality(HypSymbolFrames(timestamps[key]))
         < Cardinality(RefSymbolFrames(align))
    /\ len_unequal = 1
    /\ datas = <<>>

\* -------------------------------------------------------------------- C7
\* C7: the diffs of every collected record are as many as the non-blank
\* symbols of its hypothesis and as many as those of its reference.
C7_DiffsLength ==
    \A n \in 1..Len(datas) :
        /\ Len(datas[n].diffs) = Cardinality(HypSymbolFrames(datas[n].hyp))
        /\ Len(datas[n].diffs) = Cardinality(RefSymbolFrames(datas[n].ref))

\* a record of two symbols from a hypothesis that also holds a blank frame
C7_Witness ==
    /\ Len(datas) = 2
    /\ Len(datas[2].diffs) = 2
    /\ Len(datas[2].hyp) = 3
    /\ len_unequal = 0

\* -------------------------------------------------------------------- C8
\* k = floor(pct/100 * n)
IsFloorPct(k, pct, n) == 100 * k <= pct * n /\ pct * n < 100 * (k + 1)

\* C8: with n >= 1 records the six indices are n-1, floor(0.90n),
\* floor(0.75n), floor(0.50n), floor(0.25n), 0, all within 0..n-1, every
\* reported record is the record at its index, and equal indices are kept
\* (n = 10: max and P90 are both index 9).
C8_PercentileIndices ==
    num_datas >= 1 =>
        /\ num_datas = Len(datas)
        /\ Len(parts_index) = 6
        /\ \A j \in 1..6 : parts_index[j] \in 0..(num_datas - 1)
        /\ parts_index[1] = num_datas - 1
        /\ IsFloorPct(parts_index[2], 90, num_datas)
        /\ IsFloorPct(parts_index[3], 75, num_datas)
        /\ IsFloorPct(parts_index[4], 50, num_datas)
        /\ IsFloorPct(parts_index[5], 25, num_datas)
        /\ parts_index[6] = 0
        /\ num_datas = 10 => parts_index[1] = 9 /\ parts_index[2] = 9
        /\ Len(report) % 6 = 0
        /\ pc = "done" => Len(report) = 18
        /\ \A e \in 1..Len(report) :
               \E i \in 1..Len(datas) : report[e].data = datas[i]

\* ten records: the run is done and max and P90 of the last metric are both
\* the record at index 9
C8_Witness ==
    /\ pc = "done"
    /\ num_datas = 10
    /\ report[13].part = "max" /\ report[14].part = "P90"
    /\ report[13].data = datas[10] /\ report[14].data = datas[10]
    /\ datas[1] # datas[10]

\* -------------------------------------------------------------------- C9
\* C9: with zero records the report loop selects nothing and logs nothing:
\* its first selection raises, the run never reaches "done".
C9_EmptyRecordSet ==
    num_datas = 0 =>
        /\ report = <<>>
        /\ name_pos = 1
        /\ pc \in {"report", "raised"}

\* every alignment line was skipped and the report raised
C9_Witness ==
    /\ num_datas = 0
    /\ pc = "raised"
    /\ line_no = MaxAligns
    /\ not_found + ignored + len_unequal = MaxAligns

\* ------------------------------------------------------------------- C10
\* C10: after any number of alignment lines, not_found + ignored +
\* len_unequal + number of records = number of lines taken, and a line that
\* fails both the frame filter and the symbol count is only counted ignored.
C10_FourOutcomes ==
    /\ not_found + ignored + len_unequal + Len(datas) = line_no
    /\ (/\ line_no = 1
        /\ key \in DOMAIN timestamps
        /\ FrameGap(key, align) >= 7)
       => (ignored = 1 /\ len_unequal = 0)
====
